---------------------------- MODULE Spec2Model ----------------------------
(***************************************************************************)
(* Model of the TempCalc configuration flow                                *)
(* (custom_components/tempcalc: const.py, config_flow.py, init.py).        *)
(*                                                                         *)
(* Python strings are TLA+ strings; they are taken apart with Len, SubSeq  *)
(* and \o.  Python's None is the string None below; a dict is a function   *)
(* whose DOMAIN is the set of keys present.                                *)
(***************************************************************************)
EXTENDS Integers, Sequences, FiniteSets, TLC

VARIABLES
    states,     \* hass.states.async_all("sensor"): sequence of State objects
    areas,      \* area_reg.areas.values(): sequence of [id, name]
    registry,   \* ent_reg: entity_id -> [area_id], DOMAIN = registered ids
    entry,      \* self.config_entry.options of the stored entry, or None
    flow,       \* which flow has a form open: "none", "user", "options"
    rejected,   \* submissions of the open flow answered with errors
    op,         \* the operation that ran last
    args,       \* its arguments
    ret,        \* what it returned
    calls,      \* the _guess_best_outdoor calls it made: [candidates, tier, value]
    hass        \* the host: [version, data, platforms, listeners]

vars == <<states, areas, registry, entry, flow, rejected, op, args, ret, calls, hass>>

None == "<None>"

---------------------------------------------------------------------------
(* Python str operations                                                   *)

UpperChars == "ABCDEFGHIJKLMNOPQRSTUVWXYZ"
LowerChars == "abcdefghijklmnopqrstuvwxyz"
Digits == "0123456789"

Char(s, i) == SubSeq(s, i, i)

Tail1(s) == SubSeq(s, 2, Len(s))

\* k in s
Contains(s, k) ==
    \E i \in 1..(Len(s) - Len(k) + 1) : SubSeq(s, i, i + Len(k) - 1) = k

IndexIn(alphabet, c) ==
    IF \E i \in 1..Len(alphabet) : Char(alphabet, i) = c
    THEN CHOOSE i \in 1..Len(alphabet) : Char(alphabet, i) = c
    ELSE 0

\* c.lower() for each upper-case letter c
LowerMap ==
    [c \in {Char(UpperChars, i) : i \in 1..Len(UpperChars)} |->
        Char(LowerChars, IndexIn(UpperChars, c))]

LowerChar(c) == IF c \in DOMAIN LowerMap THEN LowerMap[c] ELSE c

RECURSIVE Lower(_)
\* s.lower()
Lower(s) == IF s = "" THEN "" ELSE LowerChar(Char(s, 1)) \o Lower(Tail1(s))

IsSpace(c) == c \in {" ", "\t", "\n"}

RECURSIVE LStrip(_)
LStrip(s) == IF s # "" /\ IsSpace(Char(s, 1)) THEN LStrip(Tail1(s)) ELSE s

RECURSIVE RStrip(_)
RStrip(s) ==
    IF s # "" /\ IsSpace(Char(s, Len(s))) THEN RStrip(SubSeq(s, 1, Len(s) - 1))
    ELSE s

\* s.strip()
Strip(s) == RStrip(LStrip(s))

RECURSIVE Replace(_, _, _)
\* s.replace(a, b) for one-character a
Replace(s, a, b) ==
    IF s = "" THEN ""
    ELSE (IF Char(s, 1) = a THEN b ELSE Char(s, 1)) \o Replace(Tail1(s), a, b)

\* any(x in s for x in keywords)
AnyIn(keywords, s) == \E i \in 1..Len(keywords) : Contains(s, keywords[i])

\* F(v), with v evaluated once: a local variable holding v
Let(v, F(_)) == CHOOSE y \in {F(x) : x \in {v}} : TRUE

\* d.get(key, default)
Get(d, key, default) == IF key \in DOMAIN d THEN d[key] ELSE default

\* Python truthiness of an optional string
Truthy(v) == v # None /\ v # ""

\* v or ""
OrEmpty(v) == IF Truthy(v) THEN v ELSE ""

\* v or None
OrNone(v) == IF Truthy(v) THEN v ELSE None

---------------------------------------------------------------------------
(* float(str): optional surrounding whitespace, optional sign, then        *)
(* "inf" / "infinity" / "nan" in any case, or digits with at most one      *)
(* "." and at least one digit, optionally followed by e[sign]digits.       *)
(* Digit-group underscores ("1_0") are outside the modelled inputs.        *)
(* A finite result is sign * mant * 10^(-scale), kept exact.               *)

\* int(c) for each digit c
DigitValue ==
    [c \in {Char(Digits, i) : i \in 1..Len(Digits)} |-> IndexIn(Digits, c) - 1]

AllDigits(s) == \A i \in 1..Len(s) : Char(s, i) \in DOMAIN DigitValue

RECURSIVE ToNat(_)
ToNat(s) ==
    IF s = "" THEN 0
    ELSE 10 * ToNat(SubSeq(s, 1, Len(s) - 1)) + DigitValue[Char(s, Len(s))]

RECURSIVE Pow10(_)
Pow10(n) == IF n <= 0 THEN 1 ELSE 10 * Pow10(n - 1)

FindChar(s, c) ==
    IF \E i \in 1..Len(s) : Char(s, i) = c
    THEN CHOOSE i \in 1..Len(s) : Char(s, i) = c /\ \A j \in 1..(i - 1) : Char(s, j) # c
    ELSE 0

ParseFail == [ok |-> FALSE, kind |-> "error", mant |-> 0, scale |-> 0]

\* digits[.digits] | .digits, unsigned
ParseMantissa(m) ==
    LET dot == FindChar(m, ".")
        ip == IF dot = 0 THEN m ELSE SubSeq(m, 1, dot - 1)
        fp == IF dot = 0 THEN "" ELSE SubSeq(m, dot + 1, Len(m))
    IN  IF AllDigits(ip) /\ AllDigits(fp) /\ Len(ip) + Len(fp) > 0
        THEN [ok |-> TRUE, kind |-> "finite", mant |-> ToNat(ip \o fp), scale |-> Len(fp)]
        ELSE ParseFail

\* [sign]digits, at least one digit
ParseExponent(x) ==
    LET signed == x # "" /\ Char(x, 1) \in {"+", "-"}
        d == IF signed THEN Tail1(x) ELSE x
    IN  IF d # "" /\ AllDigits(d)
        THEN [ok |-> TRUE, val |-> IF signed /\ Char(x, 1) = "-" THEN -ToNat(d) ELSE ToNat(d)]
        ELSE [ok |-> FALSE, val |-> 0]

ParseFloat(s) ==
    LET t == Strip(s)
        signed == t # "" /\ Char(t, 1) \in {"+", "-"}
        neg == signed /\ Char(t, 1) = "-"
        body == Lower(IF signed THEN Tail1(t) ELSE t)
        e == FindChar(body, "e")
        m == ParseMantissa(IF e = 0 THEN body ELSE SubSeq(body, 1, e - 1))
        x == IF e = 0 THEN [ok |-> TRUE, val |-> 0]
             ELSE ParseExponent(SubSeq(body, e + 1, Len(body)))
    IN  IF body \in {"inf", "infinity"}
        THEN [ok |-> TRUE, kind |-> IF neg THEN "-inf" ELSE "+inf", mant |-> 0, scale |-> 0]
        ELSE IF body = "nan"
        THEN [ok |-> TRUE, kind |-> "nan", mant |-> 0, scale |-> 0]
        ELSE IF m.ok /\ x.ok
        THEN [ok |-> TRUE, kind |-> "finite",
              mant |-> IF neg THEN -m.mant ELSE m.mant,
              scale |-> m.scale - x.val]
        ELSE ParseFail

\* lo < val < hi: the range check with its bounds left out
InRangeExclusive(lo, val, hi) ==
    /\ val.kind = "finite"
    /\ IF val.scale >= 0
       THEN /\ lo * Pow10(val.scale) < val.mant
            /\ val.mant < hi * Pow10(val.scale)
       ELSE /\ lo < val.mant * Pow10(-val.scale)
            /\ val.mant * Pow10(-val.scale) < hi

\* lo <= val <= hi for integers lo, hi and a parsed float val
InRange(lo, val, hi) ==
    /\ val.kind = "finite"
    /\ IF val.scale >= 0
       THEN /\ lo * Pow10(val.scale) <= val.mant
            /\ val.mant <= hi * Pow10(val.scale)
       ELSE /\ lo <= val.mant * Pow10(-val.scale)
            /\ val.mant * Pow10(-val.scale) <= hi

---------------------------------------------------------------------------
(* const.py                                                                *)

\* The module's strings are ASCII; each other code point that the source uses
\* is written as one token, which lower() leaves alone.
U00B0 == "{u+00b0}"    \* the degree sign of the temperature units
U00FC == "{u+00fc}"    \* u with diaeresis in OUTDOOR_KEYWORDS[4]
U221A == "{u+221a}"    \* the square root sign in OUTDOOR_KEYWORDS[4]
U2103 == "{u+2103}"    \* the degree Celsius sign in the temperature units

PLANT_KEYWORDS ==
    <<"plant", "pflanze", "flora", "flower", "soil", "moisture", "boden", "erde">>

OUTDOOR_KEYWORDS ==
    <<"outdoor", "outside", "aussen", "au" \o U221A \o U00FC \o "en", "balkon", "garten", "terrasse",
      "yard", "porch", "veranda">>

DEFAULT_ENABLE_ABSOLUTE_HUMIDITY == TRUE
DEFAULT_ENABLE_MOLD_INDEX == TRUE
DEFAULT_ENABLE_DEW_POINT == TRUE
DEFAULT_ENABLE_ENTHALPY == FALSE
DEFAULT_ENABLE_VENTILATION_RECOMMENDATION == TRUE
DEFAULT_ENABLE_VENTILATION_DURATION == TRUE

\* DOMAIN of const.py
DomainName == "tempcalc"

MIN_REQUIRED_HA_VERSION == "2025.12.0"

---------------------------------------------------------------------------
(* config_flow.py: helper functions                                        *)

EXCLUDE_ELECTRIC ==
    <<"energy_", "power", "voltage", "current", "wifi", "mqtt", "connect_count">>

EXCLUDE_DIAGNOSTIC == <<"backup", "uptime", "runtime">>

TEMP_MIN == -40
TEMP_MAX == 80
HUM_MIN == 0
HUM_MAX == 100

TEMP_UNITS ==
    {U00B0 \o "c", "c", U2103, "celsius", U00B0 \o "f", "f", "fahrenheit"}

TEMP_NAMES == <<"temp", "temperatur", "temperature", "t_">>

HUM_UNITS == {"%", "percent", "rel. %", "rh"}

HUM_NAMES == <<"hum", "humidity", "feuchte", "r_h", "rh">>

\* the plant check with only the first keyword of the list
IsPlantSensorFirstKeyword(entity_id) ==
    LET name == Lower(entity_id) IN Contains(name, PLANT_KEYWORDS[1])

IsPlantSensor(entity_id) ==
    LET name == Lower(entity_id) IN AnyIn(PLANT_KEYWORDS, name)

IsOutdoorSensor(entity_id) ==
    LET name == Lower(entity_id) IN AnyIn(OUTDOOR_KEYWORDS, name)

IsTemperatureSensor(state) ==
    LET entity_id == Lower(state.entity_id)
        attrs == state.attributes
        val == ParseFloat(Replace(state.state, ",", "."))
        unit == Strip(Lower(Get(attrs, "unit_of_measurement", "")))
    IN  IF IsPlantSensor(entity_id) THEN FALSE
        ELSE IF AnyIn(EXCLUDE_ELECTRIC, entity_id) THEN FALSE
        ELSE IF AnyIn(EXCLUDE_DIAGNOSTIC, entity_id) THEN FALSE
        ELSE IF ~val.ok THEN FALSE
        ELSE IF ~InRange(TEMP_MIN, val, TEMP_MAX) THEN FALSE
        ELSE IF unit \in TEMP_UNITS THEN TRUE
        ELSE IF AnyIn(TEMP_NAMES, entity_id) THEN TRUE
        ELSE FALSE

IsHumiditySensor(state) ==
    LET entity_id == Lower(state.entity_id)
        attrs == state.attributes
        val == ParseFloat(Replace(state.state, ",", "."))
        unit == Strip(Lower(Get(attrs, "unit_of_measurement", "")))
    IN  IF IsPlantSensor(entity_id) THEN FALSE
        ELSE IF AnyIn(EXCLUDE_ELECTRIC, entity_id) THEN FALSE
        ELSE IF AnyIn(EXCLUDE_DIAGNOSTIC, entity_id) THEN FALSE
        ELSE IF ~val.ok THEN FALSE
        ELSE IF ~InRange(HUM_MIN, val, HUM_MAX) THEN FALSE
        ELSE IF unit \in HUM_UNITS THEN TRUE
        ELSE IF AnyIn(HUM_NAMES, entity_id) THEN TRUE
        ELSE FALSE

\* A State object of the state machine
State(entity_id, state, attributes) ==
    [entity_id |-> entity_id, state |-> state, attributes |-> attributes]

\* The entities the flows' snapshots are made of
RoomHum == State("sensor.room_hum", "55", [unit_of_measurement |-> "%"])
GardenHum == State("sensor.garden_hum", "60",
                   [unit_of_measurement |-> "%", friendly_name |-> "Garden Humidity"])
OutdoorTemp == State("sensor.outdoor_temp", "12.5", [unit_of_measurement |-> U00B0 \o "C"])
PlantSoilTemp == State("sensor.plant_soil_temp", "18.0", [unit_of_measurement |-> U00B0 \o "C"])
LivingTemp == State("sensor.living_temp", "21.5",
                    [unit_of_measurement |-> U00B0 \o "C", friendly_name |-> "Wohnzimmer"])
BalkonHum == State("sensor.balkon_hum", "70", [unit_of_measurement |-> "%"])

EntityPool == {RoomHum, GardenHum, OutdoorTemp, LivingTemp, BalkonHum}

\* The classifiers' values on the pool's entities
PoolIsTemperatureSensor == [st \in EntityPool |-> IsTemperatureSensor(st)]
PoolIsHumiditySensor == [st \in EntityPool |-> IsHumiditySensor(st)]
PoolIsOutdoorSensor == [eid \in {st.entity_id : st \in EntityPool} |-> IsOutdoorSensor(eid)]

TemperatureSensor(st) ==
    IF st \in DOMAIN PoolIsTemperatureSensor THEN PoolIsTemperatureSensor[st]
    ELSE IsTemperatureSensor(st)

HumiditySensor(st) ==
    IF st \in DOMAIN PoolIsHumiditySensor THEN PoolIsHumiditySensor[st]
    ELSE IsHumiditySensor(st)

OutdoorSensor(eid) ==
    IF eid \in DOMAIN PoolIsOutdoorSensor THEN PoolIsOutdoorSensor[eid]
    ELSE IsOutdoorSensor(eid)

\* hass.states.get(entity_id): the states with that id, as stored or lower-cased
StatesGet(eid) ==
    LET eid_l == Lower(eid)
    IN  SelectSeq(states, LAMBDA st : st.entity_id = eid \/ st.entity_id = eid_l)

\* the area lookup that never finds the area
ResolveAreaIdNever(area_name) == None

\* the id of the first area whose lower-cased name is area_name, else None
ResolveAreaId(area_name) ==
    IF area_name # "" /\ \E i \in 1..Len(areas) : Lower(areas[i].name) = area_name
    THEN areas[CHOOSE i \in 1..Len(areas) :
                   /\ Lower(areas[i].name) = area_name
                   /\ \A j \in 1..(i - 1) : Lower(areas[j].name) # area_name].id
    ELSE None

FilterByAreaAndText(entity_ids, area_name_in, text_filter_in) ==
    LET area_name == Lower(Strip(OrEmpty(area_name_in)))
        text_filter == Lower(Strip(OrEmpty(text_filter_in)))
        area_id == ResolveAreaId(area_name)
        TextOk(eid) ==
            LET eid_l == Lower(eid)
                state == StatesGet(eid)
                friendly == IF state = <<>> THEN ""
                            ELSE Lower(Get(state[1].attributes, "friendly_name", ""))
            IN  IF text_filter # "" /\ ~Contains(eid_l, text_filter)
                THEN Contains(friendly, text_filter)
                ELSE TRUE
        AreaOk(eid) ==
            IF Truthy(area_id)
            THEN eid \in DOMAIN registry /\ registry[eid].area_id = area_id
            ELSE TRUE
    IN  IF entity_ids = <<>> THEN <<>>
        ELSE IF area_name = "" /\ text_filter = "" THEN entity_ids
        ELSE SelectSeq(entity_ids, LAMBDA eid : TextOk(eid) /\ AreaOk(eid))

\* [f(x) for x in seq]
MapSeq(seq, f(_)) == [i \in 1..Len(seq) |-> f(seq[i])]

EntityId(st) == st.entity_id

GetTemperatureSensors(area_name, text_filter) ==
    Let(MapSeq(SelectSeq(states, TemperatureSensor), EntityId),
        LAMBDA sensors : FilterByAreaAndText(sensors, area_name, text_filter))

GetHumiditySensors(area_name, text_filter) ==
    Let(MapSeq(SelectSeq(states, HumiditySensor), EntityId),
        LAMBDA sensors : FilterByAreaAndText(sensors, area_name, text_filter))

OUTDOOR_AREA_NAMES ==
    <<"balkon", "balkony", "garten", "garden", "terrasse", "terrace", "outdoor">>

\* the guess that takes the first candidate whatever its name and area
GuessFirstCandidate(candidates) ==
    IF candidates = <<>> THEN [value |-> None, tier |-> 0]
    ELSE [value |-> candidates[1], tier |-> 3]

\* _guess_best_outdoor, with the tier that produced the value:
\* 0 empty input, 1 name heuristics, 2 area heuristics, 3 first candidate
GuessBestOutdoorTiered(candidates) ==
    LET outdoor_like == SelectSeq(candidates, OutdoorSensor)
        outdoor_area_ids ==
            {areas[i].id : i \in {j \in 1..Len(areas) :
                                    AnyIn(OUTDOOR_AREA_NAMES, Lower(areas[j].name))}}
        in_area == SelectSeq(candidates, LAMBDA eid :
                       eid \in DOMAIN registry /\ registry[eid].area_id \in outdoor_area_ids)
    IN  IF candidates = <<>> THEN [value |-> None, tier |-> 0]
        ELSE IF outdoor_like # <<>> THEN [value |-> outdoor_like[1], tier |-> 1]
        ELSE IF outdoor_area_ids # {} /\ in_area # <<>>
        THEN [value |-> in_area[1], tier |-> 2]
        ELSE [value |-> candidates[1], tier |-> 3]

GuessBestOutdoor(candidates) == GuessBestOutdoorTiered(candidates).value

\* Code points in ascending order, for the characters area names and versions
\* are made of
CodePointOrder == " .0123456789ABCDEFGHIJKLMNOPQRSTUVWXYZabcdefghijklmnopqrstuvwxyz"

\* the rank of each of these characters
CodePointRank ==
    [c \in {Char(CodePointOrder, i) : i \in 1..Len(CodePointOrder)} |->
        IndexIn(CodePointOrder, c)]

RECURSIVE StrLess(_, _)
\* a < b on Python strings
StrLess(a, b) ==
    IF b = "" THEN FALSE
    ELSE IF a = "" THEN TRUE
    ELSE IF Char(a, 1) = Char(b, 1) THEN StrLess(Tail1(a), Tail1(b))
    ELSE CodePointRank[Char(a, 1)] < CodePointRank[Char(b, 1)]

RECURSIVE Sorted(_)
\* sorted(seq) on strings
Sorted(seq) ==
    IF seq = <<>> THEN <<>>
    ELSE LET x == seq[Len(seq)]
             rest == Sorted(SubSeq(seq, 1, Len(seq) - 1))
         IN  SelectSeq(rest, LAMBDA y : ~StrLess(x, y)) \o <<x>>
             \o SelectSeq(rest, LAMBDA y : StrLess(x, y))

AreaName(area) == area.name

GetAreaNames ==
    Sorted(MapSeq(SelectSeq(areas, LAMBDA area : area.name # ""), AreaName))

---------------------------------------------------------------------------
(* config_flow.py: TempCalcConfigFlow.  A handler's value here is          *)
(* [result, calls]: what it returns and the _guess_best_outdoor calls it   *)
(* made.  An optional user_input is << >> for None and <<dict>> otherwise. *)

EmptyDict == << >>

\* a.update(b) on a copy of a
Updated(a, b) ==
    [k \in DOMAIN a \cup DOMAIN b |-> IF k \in DOMAIN b THEN b[k] ELSE a[k]]

\* The sensors of a form: the filtered list, or all of them when it is empty
FormSensors(GetSensors(_, _), room_area, room_filter) ==
    Let(GetSensors(OrNone(room_area), OrNone(room_filter)),
        LAMBDA sensors : IF sensors = << >> THEN GetSensors(None, None) ELSE sensors)

\* the temperature sensors of a form without the fallback to all of them
FormTemperatureSensorsFiltered(room_area, room_filter) ==
    GetTemperatureSensors(OrNone(room_area), OrNone(room_filter))

FormTemperatureSensors(room_area, room_filter) ==
    FormSensors(GetTemperatureSensors, room_area, room_filter)

FormHumiditySensors(room_area, room_filter) ==
    FormSensors(GetHumiditySensors, room_area, room_filter)

\* the outdoor guess of a form taken over the whole sensor list
FormBestOutdoorOfAll(sensors) ==
    IF sensors # << >>
    THEN Let(GuessBestOutdoorTiered(sensors),
             LAMBDA guess :
                 [value |-> guess.value,
                  calls |-> <<[candidates |-> sensors,
                               tier |-> guess.tier, value |-> guess.value]>>])
    ELSE [value |-> None, calls |-> << >>]

\* The outdoor guess of a form for one sensor list, with the calls it makes
FormBestOutdoor(sensors) ==
    Let(SelectSeq(sensors, OutdoorSensor),
        LAMBDA outdoor_candidates :
            IF outdoor_candidates # << >>
            THEN Let(GuessBestOutdoorTiered(outdoor_candidates),
                     LAMBDA guess :
                         [value |-> guess.value,
                          calls |-> <<[candidates |-> outdoor_candidates,
                                       tier |-> guess.tier, value |-> guess.value]>>])
            ELSE [value |-> None, calls |-> << >>])

\* The defaults of the schema's fields, read from d with the form's fallbacks
SchemaDefaults(d, temp_sensors, hum_sensors, best_outdoor_temp, best_outdoor_hum) ==
    [room_name |-> Get(d, "room_name", ""),
     room_area |-> Get(d, "room_area", ""),
     room_filter |-> Get(d, "room_filter", ""),
     indoor_temperature_sensor |->
         Get(d, "indoor_temperature_sensor",
             IF temp_sensors # << >> THEN temp_sensors[1] ELSE ""),
     indoor_humidity_sensor |->
         Get(d, "indoor_humidity_sensor",
             IF hum_sensors # << >> THEN hum_sensors[1] ELSE ""),
     outdoor_temperature_sensor |->
         Get(d, "outdoor_temperature_sensor", OrEmpty(best_outdoor_temp)),
     outdoor_humidity_sensor |->
         Get(d, "outdoor_humidity_sensor", OrEmpty(best_outdoor_hum)),
     enable_absolute_humidity |->
         Get(d, "enable_absolute_humidity", DEFAULT_ENABLE_ABSOLUTE_HUMIDITY),
     enable_mold_index |-> Get(d, "enable_mold_index", DEFAULT_ENABLE_MOLD_INDEX),
     enable_dew_point |-> Get(d, "enable_dew_point", DEFAULT_ENABLE_DEW_POINT),
     enable_enthalpy |-> Get(d, "enable_enthalpy", DEFAULT_ENABLE_ENTHALPY),
     enable_ventilation_recommendation |->
         Get(d, "enable_ventilation_recommendation",
             DEFAULT_ENABLE_VENTILATION_RECOMMENDATION),
     enable_ventilation_duration |->
         Get(d, "enable_ventilation_duration", DEFAULT_ENABLE_VENTILATION_DURATION)]

\* The form of step_id built from the dict d that holds its values
ShowForm(step_id, d, errors) ==
    LET room_area == Get(d, "room_area", "")
        room_filter == Get(d, "room_filter", "")
        area_options == <<"">> \o GetAreaNames
        Form(temp_sensors, hum_sensors, best_outdoor_temp, best_outdoor_hum) ==
            [result |-> [type |-> "form",
                         step_id |-> step_id,
                         errors |-> errors,
                         temp_sensors |-> temp_sensors,
                         hum_sensors |-> hum_sensors,
                         best_outdoor_temp |-> best_outdoor_temp.value,
                         best_outdoor_hum |-> best_outdoor_hum.value,
                         area_options |-> area_options,
                         defaults |-> SchemaDefaults(d, temp_sensors, hum_sensors,
                                                     best_outdoor_temp.value,
                                                     best_outdoor_hum.value)],
             calls |-> best_outdoor_temp.calls \o best_outdoor_hum.calls]
    IN  Let(FormTemperatureSensors(room_area, room_filter), LAMBDA temp_sensors :
        Let(FormHumiditySensors(room_area, room_filter), LAMBDA hum_sensors :
        Let(FormBestOutdoor(temp_sensors), LAMBDA best_outdoor_temp :
        Let(FormBestOutdoor(hum_sensors), LAMBDA best_outdoor_hum :
            Form(temp_sensors, hum_sensors, best_outdoor_temp, best_outdoor_hum)))))

\* _show_user_form(user_input, errors), None passed as the empty dict
ShowUserForm(user_input, errors) == ShowForm("user", user_input, errors)

\* _show_options_form(user_input, errors), None passed as the empty dict
ShowOptionsForm(user_input, errors) ==
    Let(Updated(entry[1], user_input), LAMBDA current : ShowForm("options", current, errors))

REQUIRED_KEYS == {"indoor_temperature_sensor", "indoor_humidity_sensor"}

\* the errors dict that asks only for the keys to be present
RequiredErrorsIfAbsent(user_input) ==
    [key \in {k \in REQUIRED_KEYS : k \notin DOMAIN user_input} |-> "required"]

\* the errors dict of a submission
RequiredErrors(user_input) ==
    [key \in {k \in REQUIRED_KEYS : ~Truthy(Get(user_input, k, None))} |-> "required"]

AsyncStepUser(user_input) ==
    IF user_input = << >> THEN ShowUserForm(EmptyDict, EmptyDict)
    ELSE LET errors == RequiredErrors(user_input[1])
             title == IF Truthy(Get(user_input[1], "room_name", None))
                      THEN user_input[1].room_name ELSE "TempCalc"
         IN  IF DOMAIN errors # {} THEN ShowUserForm(user_input[1], errors)
             ELSE [result |-> [type |-> "create_entry", title |-> title,
                               data |-> EmptyDict, options |-> user_input[1]],
                   calls |-> << >>]

AsyncStepOptions(user_input) ==
    IF user_input = << >> THEN ShowOptionsForm(EmptyDict, EmptyDict)
    ELSE LET errors == RequiredErrors(user_input[1])
         IN  IF DOMAIN errors # {} THEN ShowOptionsForm(user_input[1], errors)
             ELSE [result |-> [type |-> "create_entry", title |-> "",
                               data |-> user_input[1]],
                   calls |-> << >>]

---------------------------------------------------------------------------
(* Inputs of the classifier                                                *)

\* Entity ids, each with what it contains once lower-cased:
\* a plant keyword, an exclusion keyword, a temperature name, a humidity name
ClassifierIds ==
    { [id |-> "sensor.living_room",     plant |-> FALSE, excl |-> FALSE, tname |-> FALSE, hname |-> FALSE],
      [id |-> "sensor.kitchen_temp",    plant |-> FALSE, excl |-> FALSE, tname |-> TRUE,  hname |-> FALSE],
      [id |-> "sensor.bath_humidity",   plant |-> FALSE, excl |-> FALSE, tname |-> FALSE, hname |-> TRUE],
      [id |-> "sensor.Plant_Soil_Temp", plant |-> TRUE,  excl |-> FALSE, tname |-> TRUE,  hname |-> FALSE],
      [id |-> "sensor.flower_bed_rh",   plant |-> TRUE,  excl |-> FALSE, tname |-> FALSE, hname |-> TRUE],
      [id |-> "sensor.pferdestall",     plant |-> TRUE,  excl |-> FALSE, tname |-> FALSE, hname |-> FALSE],
      [id |-> "sensor.power_temp",      plant |-> FALSE, excl |-> TRUE,  tname |-> TRUE,  hname |-> FALSE],
      [id |-> "sensor.uptime_humidity", plant |-> FALSE, excl |-> TRUE,  tname |-> FALSE, hname |-> TRUE],
      [id |-> "sensor.light_level",     plant |-> FALSE, excl |-> FALSE, tname |-> TRUE,  hname |-> FALSE],
      [id |-> "sensor.OUTSIDE",         plant |-> FALSE, excl |-> FALSE, tname |-> FALSE, hname |-> FALSE] }

\* Raw values, each with whether it is a number and, if finite, its value in
\* hundredths
RawValues ==
    { [raw |-> "21.5",        num |-> TRUE,  finite |-> TRUE,  c |-> 2150],
      [raw |-> "21,5",        num |-> TRUE,  finite |-> TRUE,  c |-> 2150],
      [raw |-> "-40",         num |-> TRUE,  finite |-> TRUE,  c |-> -4000],
      [raw |-> "-40,0",       num |-> TRUE,  finite |-> TRUE,  c |-> -4000],
      [raw |-> "-40.01",      num |-> TRUE,  finite |-> TRUE,  c |-> -4001],
      [raw |-> "80",          num |-> TRUE,  finite |-> TRUE,  c |-> 8000],
      [raw |-> "80.00",       num |-> TRUE,  finite |-> TRUE,  c |-> 8000],
      [raw |-> "80.01",       num |-> TRUE,  finite |-> TRUE,  c |-> 8001],
      [raw |-> "0",           num |-> TRUE,  finite |-> TRUE,  c |-> 0],
      [raw |-> "-0.01",       num |-> TRUE,  finite |-> TRUE,  c |-> -1],
      [raw |-> "100",         num |-> TRUE,  finite |-> TRUE,  c |-> 10000],
      [raw |-> "100,01",      num |-> TRUE,  finite |-> TRUE,  c |-> 10001],
      [raw |-> " 20 ",        num |-> TRUE,  finite |-> TRUE,  c |-> 2000],
      [raw |-> "+5",          num |-> TRUE,  finite |-> TRUE,  c |-> 500],
      [raw |-> ".5",          num |-> TRUE,  finite |-> TRUE,  c |-> 50],
      [raw |-> "8e1",         num |-> TRUE,  finite |-> TRUE,  c |-> 8000],
      [raw |-> "nan",         num |-> TRUE,  finite |-> FALSE, c |-> 0],
      [raw |-> "-inf",        num |-> TRUE,  finite |-> FALSE, c |-> 0],
      [raw |-> "unavailable", num |-> FALSE, finite |-> FALSE, c |-> 0],
      [raw |-> "unknown",     num |-> FALSE, finite |-> FALSE, c |-> 0],
      [raw |-> "",            num |-> FALSE, finite |-> FALSE, c |-> 0],
      [raw |-> "1.2.3",       num |-> FALSE, finite |-> FALSE, c |-> 0],
      [raw |-> "1,000.5",     num |-> FALSE, finite |-> FALSE, c |-> 0],
      [raw |-> "-",           num |-> FALSE, finite |-> FALSE, c |-> 0] }

\* Attribute maps, each with whether its unit, trimmed and lower-cased, is a
\* temperature unit or a humidity unit of the whitelists
UnitAttrs ==
    { [attrs |-> << >>,                                      tunit |-> FALSE, hunit |-> FALSE],
      [attrs |-> [friendly_name |-> "Thing"],                tunit |-> FALSE, hunit |-> FALSE],
      [attrs |-> [unit_of_measurement |-> ""],               tunit |-> FALSE, hunit |-> FALSE],
      [attrs |-> [unit_of_measurement |-> "K"],              tunit |-> FALSE, hunit |-> FALSE],
      [attrs |-> [unit_of_measurement |-> U00B0 \o "C"],      tunit |-> TRUE,  hunit |-> FALSE],
      [attrs |-> [unit_of_measurement |-> " " \o U00B0 \o "c "], tunit |-> TRUE,  hunit |-> FALSE],
      [attrs |-> [unit_of_measurement |-> U2103],            tunit |-> TRUE,  hunit |-> FALSE],
      [attrs |-> [unit_of_measurement |-> "Celsius"],        tunit |-> TRUE,  hunit |-> FALSE],
      [attrs |-> [unit_of_measurement |-> "F"],              tunit |-> TRUE,  hunit |-> FALSE],
      [attrs |-> [unit_of_measurement |-> "%",
                  device_class |-> "humidity"],              tunit |-> FALSE, hunit |-> TRUE],
      [attrs |-> [unit_of_measurement |-> " RH"],            tunit |-> FALSE, hunit |-> TRUE],
      [attrs |-> [unit_of_measurement |-> "rel. %"],         tunit |-> FALSE, hunit |-> TRUE],
      [attrs |-> [unit_of_measurement |-> "Percent"],        tunit |-> FALSE, hunit |-> TRUE],
      [attrs |-> [device_class |-> "temperature"],           tunit |-> FALSE, hunit |-> FALSE] }

ClassifierInputs ==
    { State(i.id, v.raw, u.attrs) : i \in ClassifierIds, v \in RawValues, u \in UnitAttrs }

IdLabel(id) == CHOOSE i \in ClassifierIds : i.id = id
ValueLabel(raw) == CHOOSE v \in RawValues : v.raw = raw
UnitLabel(attrs) == CHOOSE u \in UnitAttrs : u.attrs = attrs

---------------------------------------------------------------------------
(* The classifier applied to one entity of a one-entity snapshot.  A        *)
(* behaviour of a helper's specification draws the inputs and applies one  *)
(* helper to them once.                                                    *)

\* The host before an entry is set up: hass.config's version, hass.data, the
\* platforms entries were forwarded to and the update listeners added
Hass(version) ==
    [version |-> version, data |-> << >>, platforms |-> << >>, listeners |-> << >>]

Quiet == /\ hass = Hass(None)
         /\ entry = << >>
         /\ flow = "none"
         /\ rejected = 0
         /\ op = "init"
         /\ args = << >>
         /\ ret = << >>
         /\ calls = << >>

InitClassify ==
    /\ states \in { <<e>> : e \in ClassifierInputs }
    /\ areas = << >>
    /\ registry = << >>
    /\ Quiet

Returns(name, a, r) ==
    /\ op' = name
    /\ args' = a
    /\ ret' = r

IsTemperatureSensorCall ==
    /\ op = "init"
    /\ Returns("_is_temperature_sensor", <<states[1]>>, IsTemperatureSensor(states[1]))
    /\ UNCHANGED <<states, areas, registry, entry, flow, rejected, calls, hass>>

IsHumiditySensorCall ==
    /\ op = "init"
    /\ Returns("_is_humidity_sensor", <<states[1]>>, IsHumiditySensor(states[1]))
    /\ UNCHANGED <<states, areas, registry, entry, flow, rejected, calls, hass>>

GetTemperatureSensorsCall ==
    /\ op = "init"
    /\ Returns("_get_temperature_sensors", <<None, None>>, GetTemperatureSensors(None, None))
    /\ UNCHANGED <<states, areas, registry, entry, flow, rejected, calls, hass>>

GetHumiditySensorsCall ==
    /\ op = "init"
    /\ Returns("_get_humidity_sensors", <<None, None>>, GetHumiditySensors(None, None))
    /\ UNCHANGED <<states, areas, registry, entry, flow, rejected, calls, hass>>

NextClassify ==
    \/ IsTemperatureSensorCall
    \/ IsHumiditySensorCall
    \/ GetTemperatureSensorsCall
    \/ GetHumiditySensorsCall

SpecClassify == InitClassify /\ [][NextClassify]_vars

InSeq(x, seq) == \E i \in 1..Len(seq) : seq[i] = x

\* C1: an entity whose id contains a plant keyword (in any case) is rejected by
\* _is_temperature_sensor and by _is_humidity_sensor whatever its value and
\* unit, and is in no temperature or humidity candidate list.
C1_PlantNeverClassified ==
    \A i \in 1..Len(states) :
        IdLabel(states[i].entity_id).plant =>
            /\ (op \in {"_is_temperature_sensor", "_is_humidity_sensor"}
                    /\ args[1] = states[i]) => ret = FALSE
            /\ op \in {"_get_temperature_sensors", "_get_humidity_sensors"}
                    => ~InSeq(states[i].entity_id, ret)

\* A plant entity with a whitelisted unit and a value in range was classified.
C1_Witness ==
    /\ op = "_is_temperature_sensor"
    /\ IdLabel(args[1].entity_id).plant
    /\ UnitLabel(args[1].attributes).tunit
    /\ ValueLabel(args[1].state).c = 2150
    /\ ret = FALSE

C9_TwoSelectablePolicies ==
    op \in {"_get_temperature_sensors", "_get_humidity_sensors"} =>
        /\ Len(args) = 3
        /\ args[3] \in {"strict", "heuristic"}
        /\ args[3] = "strict" =>
               \A i \in 1..Len(states) :
                   InSeq(states[i].entity_id, ret) <=>
                       /\ "device_class" \in DOMAIN states[i].attributes
                       /\ states[i].attributes.device_class =
                              IF op = "_get_temperature_sensors"
                              THEN "temperature" ELSE "humidity"

---------------------------------------------------------------------------
(* The snapshot, the area directory and the entity registry of the other   *)
(* specifications                                                          *)

Garten == [id |-> "a1", name |-> "Garten"]
Kitchen == [id |-> "a2", name |-> "Kitchen"]
Kitchen2 == [id |-> "a3", name |-> "Kitchen"]
Unnamed == [id |-> "a4", name |-> ""]
Attic == [id |-> "a5", name |-> "attic"]

AreaPool == {Garten, Kitchen, Kitchen2, Unnamed, Attic}

AreaDirectories ==
    { << >>, <<Garten, Kitchen>>, <<Kitchen2, Kitchen, Garten>>, <<Unnamed, Attic>>,
      <<Kitchen>> }

\* sensor.balkon_hum is not registered; sensor.outdoor_temp has no area
Registry ==
    [eid \in {"sensor.room_hum", "sensor.garden_hum", "sensor.outdoor_temp",
              "sensor.living_temp", "sensor.plant_soil_temp"} |->
        [area_id |-> CASE eid = "sensor.room_hum" -> "a2"
                       [] eid = "sensor.garden_hum" -> "a1"
                       [] eid = "sensor.outdoor_temp" -> None
                       [] eid = "sensor.living_temp" -> "a2"
                       [] eid = "sensor.plant_soil_temp" -> "a1"]]

CandidateIds ==
    {"sensor.room_hum", "sensor.garden_hum", "sensor.living_temp", "sensor.balkon_hum",
     "sensor.outdoor_temp"}

MaxCandidates == 2

RECURSIVE SeqsUpTo(_, _)
\* the sequences over S of length at most n
SeqsUpTo(S, n) ==
    IF n = 0 THEN { << >> }
    ELSE LET shorter == SeqsUpTo(S, n - 1)
         IN  shorter \cup { Append(q, x) : q \in shorter, x \in S }

CandidateLists == SeqsUpTo(CandidateIds, MaxCandidates)

AreaNameInputs == {None, "", " kitchen ", "Garten", "Cellar"}

TextInputs == {None, " ", "HUM ", "wohn", "zzz"}

---------------------------------------------------------------------------
(* _filter_by_area_and_text and _guess_best_outdoor applied to drawn       *)
(* candidate lists                                                         *)

InitHelpers ==
    /\ states = <<RoomHum, GardenHum, OutdoorTemp, PlantSoilTemp, LivingTemp, BalkonHum>>
    /\ areas \in AreaDirectories
    /\ registry = Registry
    /\ Quiet

FilterByAreaAndTextCall ==
    /\ op = "init"
    /\ \E entity_ids \in CandidateLists, area_name \in AreaNameInputs, text_filter \in TextInputs :
           Returns("_filter_by_area_and_text", <<entity_ids, area_name, text_filter>>,
                   FilterByAreaAndText(entity_ids, area_name, text_filter))
    /\ UNCHANGED <<states, areas, registry, entry, flow, rejected, calls, hass>>

GuessBestOutdoorCall ==
    /\ op = "init"
    /\ \E candidates \in CandidateLists :
           /\ Returns("_guess_best_outdoor", <<candidates>>, GuessBestOutdoor(candidates))
           /\ calls' = <<[candidates |-> candidates,
                          tier |-> GuessBestOutdoorTiered(candidates).tier,
                          value |-> GuessBestOutdoor(candidates)]>>
    /\ UNCHANGED <<states, areas, registry, entry, flow, rejected, hass>>

NextHelpers == FilterByAreaAndTextCall \/ GuessBestOutdoorCall

SpecHelpers == InitHelpers /\ [][NextHelpers]_vars

Min(S) == CHOOSE x \in S : \A y \in S : x <= y

\* C5: _filter_by_area_and_text returns, in input order, the candidates that
\* (1) when the trimmed lower-cased text is non-empty contain it in their id
\* or else in their friendly name and (2) when the trimmed lower-cased area
\* name is the lower-cased name of an area (the first such area) are
\* registered to that area; so with no area and no text the input comes back
\* unchanged, and an area name matching no area acts like no area name.
C5_FilterExactly ==
    op = "_filter_by_area_and_text" =>
        LET candidates == args[1]
            text == IF args[3] = None THEN "" ELSE Lower(Strip(args[3]))
            name == IF args[2] = None THEN "" ELSE Lower(Strip(args[2]))
            named == {i \in 1..Len(areas) : Lower(areas[i].name) = name}
            resolved == name # "" /\ named # {}
            Friendly(eid) ==
                IF \E st \in EntityPool : st.entity_id = eid /\ "friendly_name" \in DOMAIN st.attributes
                THEN Lower((CHOOSE st \in EntityPool : st.entity_id = eid).attributes.friendly_name)
                ELSE ""
            Keep(eid) ==
                /\ text # "" => (Contains(Lower(eid), text) \/ Contains(Friendly(eid), text))
                /\ resolved => /\ eid \in DOMAIN registry
                               /\ registry[eid].area_id = areas[Min(named)].id
        IN  /\ ret = SelectSeq(candidates, Keep)
            /\ (text = "" /\ name = "") => ret = candidates
            /\ ~resolved => ret = FilterByAreaAndText(candidates, None, args[3])

\* A candidate kept by its friendly name alone, in a resolved area that
\* drops another candidate.
C5_Witness ==
    /\ op = "_filter_by_area_and_text"
    /\ args = <<<<"sensor.room_hum", "sensor.living_temp">>, " kitchen ", "wohn">>
    /\ areas = <<Garten, Kitchen>>
    /\ ret = <<"sensor.living_temp">>

\* Ids with an outdoor keyword, and area ids whose area has an outdoor name
OutdoorNamedIds == {"sensor.balkon_hum", "sensor.outdoor_temp"}
OutdoorNamedAreaIds == {"a1"}

\* C6: _guess_best_outdoor returns none for the empty list; else the first
\* candidate whose id has an outdoor keyword; else the first candidate
\* registered to an area with an outdoor name; else the first candidate.
\* A result other than none is an element of the input.
C6_GuessExactly ==
    op = "_guess_best_outdoor" =>
        LET c == args[1]
            byName == {i \in 1..Len(c) : c[i] \in OutdoorNamedIds}
            present == {areas[i].id : i \in 1..Len(areas)} \cap OutdoorNamedAreaIds
            byArea == {i \in 1..Len(c) :
                          c[i] \in DOMAIN Registry /\ Registry[c[i]].area_id \in present}
        IN  /\ ret = IF c = << >> THEN None
                     ELSE IF byName # {} THEN c[Min(byName)]
                     ELSE IF byArea # {} THEN c[Min(byArea)]
                     ELSE c[1]
            /\ ret # None => InSeq(ret, c)

\* The second candidate is picked for its area, no id having an outdoor
\* keyword.
C6_Witness ==
    /\ op = "_guess_best_outdoor"
    /\ args = <<<<"sensor.room_hum", "sensor.garden_hum">>>>
    /\ ret = "sensor.garden_hum"
    /\ calls[1].tier = 2

---------------------------------------------------------------------------
(* _get_area_names applied to drawn area directories                       *)

MaxAreas == 3

RECURSIVE DistinctSeqsUpTo(_, _)
\* the sequences of distinct elements of S of length at most n
DistinctSeqsUpTo(S, n) ==
    IF n = 0 THEN { << >> }
    ELSE LET shorter == DistinctSeqsUpTo(S, n - 1)
         IN  shorter \cup UNION { { Append(q, x) :
                                         x \in {y \in S : \A i \in 1..Len(q) : q[i] # y} } :
                                     q \in shorter }

InitAreas ==
    /\ states = << >>
    /\ areas \in DistinctSeqsUpTo(AreaPool, MaxAreas)
    /\ registry = << >>
    /\ Quiet

GetAreaNamesCall ==
    /\ op = "init"
    /\ Returns("_get_area_names", << >>, GetAreaNames)
    /\ UNCHANGED <<states, areas, registry, entry, flow, rejected, calls, hass>>

NextAreas == GetAreaNamesCall

SpecAreas == InitAreas /\ [][NextAreas]_vars

\* The pool's names in ascending code point order
NameRank(name) ==
    CASE name = "" -> 0
      [] name = "Garten" -> 1
      [] name = "Kitchen" -> 2
      [] name = "attic" -> 3

\* C7: the list of area names is sorted in ascending order, has no empty
\* name and has no name twice, even when several areas share a name.
C7_AreaNamesSortedUnique ==
    op = "_get_area_names" =>
        /\ \A i \in 1..Len(ret), j \in 1..Len(ret) :
               i < j => NameRank(ret[i]) <= NameRank(ret[j])
        /\ \A i \in 1..Len(ret) : ret[i] # ""
        /\ \A i \in 1..Len(ret), j \in 1..Len(ret) : i # j => ret[i] # ret[j]

\* The part of C7 the code keeps: sorted, no empty name, and one entry for
\* each area with a name.
C7_AreaNamesSortedNonEmpty ==
    op = "_get_area_names" =>
        /\ \A i \in 1..Len(ret), j \in 1..Len(ret) :
               i < j => NameRank(ret[i]) <= NameRank(ret[j])
        /\ \A i \in 1..Len(ret) : ret[i] # ""
        /\ Len(ret) = Cardinality({i \in 1..Len(areas) : areas[i].name # ""})

---------------------------------------------------------------------------
(* The setup flow and the options flow on a snapshot that changes between  *)
(* their steps                                                             *)

MaxEntities == 2
MaxRejected == 2

LivingAndRoom ==
    [indoor_temperature_sensor |-> "sensor.living_temp",
     indoor_humidity_sensor |-> "sensor.room_hum"]

BadKitchen ==
    [room_name |-> "Bad", room_area |-> "Kitchen", room_filter |-> "hum",
     indoor_temperature_sensor |-> "sensor.living_temp",
     indoor_humidity_sensor |-> "sensor.room_hum",
     outdoor_temperature_sensor |-> "sensor.outdoor_temp"]

\* Submissions: four that lack a required sensor and two that have both
UserInputs ==
    { EmptyDict,
      [room_filter |-> "hum"],
      [room_area |-> "Kitchen", indoor_temperature_sensor |-> "sensor.living_temp",
       indoor_humidity_sensor |-> ""],
      [room_area |-> "Kitchen", room_filter |-> "zzz", indoor_temperature_sensor |-> "",
       indoor_humidity_sensor |-> "sensor.room_hum"],
      LivingAndRoom,
      BadKitchen }

Init ==
    /\ states = << >>
    /\ areas = <<Garten, Kitchen>>
    /\ registry = Registry
    /\ Quiet

\* An entity appears in the state machine
StateAdded ==
    /\ Len(states) < MaxEntities
    /\ \E e \in EntityPool :
           /\ \A i \in 1..Len(states) : states[i] # e
           /\ states' = Append(states, e)
    /\ Returns("state_added", << >>, << >>)
    /\ calls' = << >>
    /\ UNCHANGED <<areas, registry, entry, flow, rejected, hass>>

\* An entity disappears from the state machine
StateRemoved ==
    /\ \E i \in 1..Len(states) :
           states' = SubSeq(states, 1, i - 1) \o SubSeq(states, i + 1, Len(states))
    /\ Returns("state_removed", << >>, << >>)
    /\ calls' = << >>
    /\ UNCHANGED <<areas, registry, entry, flow, rejected, hass>>

\* async_step_user: the first call shows the form, a submission is either
\* answered with the form again or ends the flow with an entry
UserStep ==
    \E user_input \in {<< >>} \cup {<<ui>> : ui \in UserInputs} :
      /\ flow = IF user_input = << >> THEN "none" ELSE "user"
      /\ \E r \in {AsyncStepUser(user_input)} :
        LET form == r.result.type = "form"
        IN  /\ TRUE
            /\ (user_input # << >> /\ form) => rejected < MaxRejected
            /\ Returns("async_step_user", <<user_input>>, r.result)
            /\ calls' = r.calls
            /\ flow' = IF form THEN "user" ELSE "none"
            /\ rejected' = IF user_input = << >> THEN 0
                           ELSE IF form THEN rejected + 1 ELSE rejected
            /\ entry' = IF form THEN entry ELSE <<r.result.options>>
            /\ UNCHANGED <<states, areas, registry, hass>>

\* async_step_options on the stored entry
OptionsStep ==
    \E user_input \in {<< >>} \cup {<<ui>> : ui \in UserInputs} :
      /\ entry # << >>
      /\ flow = IF user_input = << >> THEN "none" ELSE "options"
      /\ \E r \in {AsyncStepOptions(user_input)} :
        LET form == r.result.type = "form"
        IN  /\ TRUE
            /\ (user_input # << >> /\ form) => rejected < MaxRejected
            /\ Returns("async_step_options", <<user_input>>, r.result)
            /\ calls' = r.calls
            /\ flow' = IF form THEN "options" ELSE "none"
            /\ rejected' = IF user_input = << >> THEN 0
                           ELSE IF form THEN rejected + 1 ELSE rejected
            /\ entry' = IF form THEN entry ELSE <<r.result.data>>
            /\ UNCHANGED <<states, areas, registry, hass>>

Next == StateAdded \/ StateRemoved \/ UserStep \/ OptionsStep

Spec == Init /\ [][Next]_vars

---------------------------------------------------------------------------
(* What the flows' steps return                                            *)

IsForm ==
    /\ op \in {"async_step_user", "async_step_options"}
    /\ ret.type = "form"

\* the dict submitted with the last step, empty when there was none
Submitted == IF args[1] = << >> THEN EmptyDict ELSE args[1][1]

\* the value a form works with for a key: the submitted one, else in the
\* options flow the stored one, else none
FormValue(key) ==
    IF key \in DOMAIN Submitted THEN Submitted[key]
    ELSE IF op = "async_step_options" /\ key \in DOMAIN entry[1] THEN entry[1][key]
    ELSE ""

\* The pool's entities by category, and the ones the flows' filters select
TemperatureIds == {"sensor.outdoor_temp", "sensor.living_temp"}
HumidityIds == {"sensor.room_hum", "sensor.garden_hum", "sensor.balkon_hum"}
KitchenIds == {"sensor.room_hum", "sensor.living_temp"}
HumTextIds == {"sensor.room_hum", "sensor.garden_hum", "sensor.balkon_hum"}

PassesFormFilter(eid) ==
    /\ FormValue("room_area") = "Kitchen" => eid \in KitchenIds
    /\ FormValue("room_filter") = "hum" => eid \in HumTextIds
    /\ FormValue("room_filter") # "zzz"

ClassifiedIds(category) ==
    SelectSeq([i \in 1..Len(states) |-> states[i].entity_id],
              LAMBDA eid : eid \in category)

FilteredOrAll(category) ==
    LET filtered == SelectSeq(ClassifiedIds(category), PassesFormFilter)
    IN  IF filtered # << >> THEN filtered ELSE ClassifiedIds(category)

\* C3: on the snapshot of sensor.room_hum ("55", "%") and sensor.garden_hum
\* ("60", "%"), a form rendered without area and text filter lists both as
\* humidity candidates and guesses sensor.garden_hum as outdoor humidity.
C3_GardenHumGuessed ==
    (/\ IsForm
     /\ FormValue("room_area") = ""
     /\ FormValue("room_filter") = ""
     /\ states \in {<<RoomHum, GardenHum>>, <<GardenHum, RoomHum>>})
        => /\ InSeq("sensor.room_hum", ret.hum_sensors)
           /\ InSeq("sensor.garden_hum", ret.hum_sensors)
           /\ ret.best_outdoor_hum = "sensor.garden_hum"

\* C4: in every form, for each category on its own, the candidate list is
\* the filtered classified list when that is non-empty and the whole
\* classified list otherwise; it is empty only when nothing classifies.
C4_FilteredElseAll ==
    IsForm =>
        /\ ret.temp_sensors = FilteredOrAll(TemperatureIds)
        /\ ret.hum_sensors = FilteredOrAll(HumidityIds)
        /\ ret.temp_sensors = << >> <=> ClassifiedIds(TemperatureIds) = << >>
        /\ ret.hum_sensors = << >> <=> ClassifiedIds(HumidityIds) = << >>

\* A form filtered by area whose temperature list fell back to all the
\* temperature sensors while its humidity list is the filtered one.
C4_Witness ==
    /\ IsForm
    /\ FormValue("room_area") = "Kitchen"
    /\ ret.temp_sensors = <<"sensor.outdoor_temp">>
    /\ ret.hum_sensors = <<"sensor.room_hum">>
    /\ Len(states) = 2

\* the required keys the dict submitted with a step lacks or leaves empty
MissingIn(submitted) ==
    {k \in {"indoor_temperature_sensor", "indoor_humidity_sensor"} :
        k \notin DOMAIN submitted \/ submitted[k] = ""}

\* a step of either flow that handles a submission
C8_Step ==
    (op' \in {"async_step_user", "async_step_options"} /\ args'[1] # << >>) =>
        LET submitted == args'[1][1]
        IN  IF MissingIn(submitted) = {}
            THEN /\ ret'.type = "create_entry"
                 /\ entry' = <<submitted>>
            ELSE /\ ret'.type = "form"
                 /\ entry' = entry
                 /\ DOMAIN ret'.errors = MissingIn(submitted)
                 /\ \A k \in DOMAIN ret'.errors : ret'.errors[k] = "required"
                 /\ \A k \in DOMAIN submitted : ret'.defaults[k] = submitted[k]

\* C8: in both flows a submission creates the entry exactly when both indoor
\* sensors are non-empty in it; otherwise no entry is created, exactly the
\* missing keys are marked "required" and the form comes back with the
\* submitted values as defaults; this holds after any number of rejections.
C8_EntryIffBothIndoorSensors == [][C8_Step]_vars

\* Two submissions were rejected and a later one created the entry.
C8_Witness ==
    /\ op = "async_step_user"
    /\ rejected >= 2
    /\ ret.type = "create_entry"
    /\ entry = <<Submitted>>

\* the first id of a candidate list with an outdoor keyword, else none
FirstOutdoorNamed(candidates) ==
    LET named == SelectSeq(candidates, LAMBDA eid : eid \in OutdoorNamedIds)
    IN  IF named = << >> THEN None ELSE named[1]

\* C10: in every form _guess_best_outdoor is called only with non-empty lists
\* of ids that all have an outdoor keyword, so it never goes past its first
\* tier; a category's guess is the first id of its candidate list with an
\* outdoor keyword, and none exactly when no candidate has one.
C10_GuessOnlyOnOutdoorNamed ==
    IsForm =>
        /\ \A i \in 1..Len(calls) :
               /\ calls[i].candidates # << >>
               /\ \A j \in 1..Len(calls[i].candidates) :
                      calls[i].candidates[j] \in OutdoorNamedIds
               /\ calls[i].tier = 1
        /\ ret.best_outdoor_temp = FirstOutdoorNamed(ret.temp_sensors)
        /\ ret.best_outdoor_hum = FirstOutdoorNamed(ret.hum_sensors)

\* A form whose outdoor temperature guess is the second temperature
\* candidate and whose humidity list has no outdoor-named id.
C10_Witness ==
    /\ IsForm
    /\ Len(calls) = 1
    /\ ret.temp_sensors = <<"sensor.living_temp", "sensor.outdoor_temp">>
    /\ ret.best_outdoor_temp = "sensor.outdoor_temp"
    /\ ret.best_outdoor_hum = None

---------------------------------------------------------------------------
(* init.py: async_setup and async_setup_entry on a host that reports one   *)
(* of a set of versions, or none                                           *)

\* async_setup(hass, config)
AsyncSetup == TRUE

\* async_setup_entry(hass, entry): what it raises or returns, and the host
\* it leaves
AsyncSetupEntry(h) ==
    LET current_version == h.version
    IN  IF Truthy(current_version) /\ StrLess(current_version, MIN_REQUIRED_HA_VERSION)
        THEN [raised |-> "HomeAssistantError", value |-> None, hass |-> h]
        ELSE [raised |-> None, value |-> TRUE,
              hass |-> [h EXCEPT
                          !.data = Updated((DomainName :> EmptyDict), @),
                          !.platforms = Append(@, "sensor"),
                          !.listeners = Append(@, "async_reload_entry")]]

RECURSIVE NatToStr(_)
\* str(n) for a natural number n
NatToStr(n) ==
    IF n < 10 THEN Char(Digits, n + 1)
    ELSE NatToStr(n \div 10) \o Char(Digits, (n % 10) + 1)

VersionYears == {2024, 2025, 2026}
VersionMonths == 1..12
VersionPatches == {0, 1, 10}

\* The versions a host reports, each with the numbers it is written from
VersionInputs ==
    { [text |-> NatToStr(y) \o "." \o NatToStr(m) \o "." \o NatToStr(p),
       year |-> y, month |-> m, patch |-> p] :
          y \in VersionYears, m \in VersionMonths, p \in VersionPatches }

VersionLabel(text) == CHOOSE v \in VersionInputs : v.text = text

InitSetup ==
    /\ hass \in {Hass(v) : v \in {None, ""} \cup {i.text : i \in VersionInputs}}
    /\ states = << >>
    /\ areas = << >>
    /\ registry = << >>
    /\ entry = <<LivingAndRoom>>
    /\ flow = "none"
    /\ rejected = 0
    /\ op = "init"
    /\ args = << >>
    /\ ret = << >>
    /\ calls = << >>

AsyncSetupCall ==
    /\ op = "init"
    /\ Returns("async_setup", << >>, [raised |-> None, value |-> AsyncSetup])
    /\ UNCHANGED <<states, areas, registry, entry, flow, rejected, calls, hass>>

AsyncSetupEntryCall ==
    /\ op = "init"
    /\ \E r \in {AsyncSetupEntry(hass)} :
           /\ Returns("async_setup_entry", <<entry[1]>>,
                      [raised |-> r.raised, value |-> r.value])
           /\ hass' = r.hass
    /\ UNCHANGED <<states, areas, registry, entry, flow, rejected, calls>>

NextSetup == AsyncSetupCall \/ AsyncSetupEntryCall

SpecSetup == InitSetup /\ [][NextSetup]_vars

\* a version older than 2025.12.0 by its year, month and patch numbers
OlderThanRequired(v) ==
    \/ v.year < 2025
    \/ v.year = 2025 /\ v.month < 12
    \/ v.year = 2025 /\ v.month = 12 /\ v.patch < 0

\* C11: async_setup_entry raises HomeAssistantError, with nothing registered,
\* exactly when the host reports a version older than 2025.12.0 by its
\* numeric year, month and patch; for every other reported version, and when
\* none is reported, setup goes on and returns true.
C11_RaisesIffOlderVersion ==
    op = "async_setup_entry" =>
        LET older == /\ hass.version \notin {None, ""}
                     /\ OlderThanRequired(VersionLabel(hass.version))
        IN  /\ ret.raised = "HomeAssistantError" <=> older
            /\ older => /\ hass.data = << >>
                        /\ hass.platforms = << >>
                        /\ hass.listeners = << >>
            /\ ~older => /\ ret.raised = None
                         /\ ret.value = TRUE
                         /\ hass.platforms = <<"sensor">>

=============================================================================
